---------------------------- MODULE Spec2Model ----------------------------
(***************************************************************************)
(* Model of src/inventory_system.py: the module-level dictionary           *)
(* stock_data, the operations add_item, remove_item, get_qty,              *)
(* check_low_items, load_data, save_data, and the adoption of a loaded     *)
(* dictionary done by main.                                                *)
(*                                                                         *)
(* Python values are records [t, n]: t is the kind of object, n its        *)
(* number where it has one.  A dict is the sequence of its entries in      *)
(* insertion order.  A JSON file is the sequence of the members of its     *)
(* top-level object, each value a token of JSON text.                      *)
(***************************************************************************)
EXTENDS Integers, Sequences, FiniteSets, TLC

\* Bounds of the model: the largest quantity and the largest magnitude of a
\* negative quantity a call may leave in the dictionary.
MaxQty == 2
MaxNeg == 1

\* check_low_items(threshold=5)
DefaultThreshold == 5

\* ------------------------------------------------------------------ values

\* An int or a finite float, a float infinity or nan, a bool, a str, None.
Fin(n) == [t |-> "num", n |-> n]
Inf == [t |-> "inf", n |-> 0]
NegInf == [t |-> "ninf", n |-> 0]
NaN == [t |-> "nan", n |-> 0]
Bool(b) == [t |-> "bool", n |-> IF b THEN 1 ELSE 0]
Str == [t |-> "str", n |-> 0]
None == [t |-> "none", n |-> 0]

\* isinstance(x, (int, float)): bool is a subclass of int
IsNumber(x) == x.t \in {"num", "inf", "ninf", "nan", "bool"}

IsFinite(x) == x.t \in {"num", "bool"}

\* a + b on two numbers: int + bool is an int, inf + -inf and anything
\* + nan are nan
PyAdd(a, b) ==
    IF a.t = "nan" \/ b.t = "nan" THEN NaN
    ELSE IF a.t = "inf" THEN (IF b.t = "ninf" THEN NaN ELSE Inf)
    ELSE IF a.t = "ninf" THEN (IF b.t = "inf" THEN NaN ELSE NegInf)
    ELSE IF b.t \in {"inf", "ninf"} THEN b
    ELSE Fin(a.n + b.n)

\* -b
PyNeg(b) ==
    CASE b.t = "inf" -> NegInf
      [] b.t = "ninf" -> Inf
      [] b.t = "nan" -> NaN
      [] OTHER -> Fin(0 - b.n)

\* a - b on two numbers
PySub(a, b) == PyAdd(a, PyNeg(b))

\* a < b on two numbers: every comparison with nan is False
PyLt(a, b) ==
    /\ a.t # "nan" /\ b.t # "nan"
    /\ \/ a.t = "ninf" /\ b.t # "ninf"
       \/ b.t = "inf" /\ a.t # "inf"
       \/ IsFinite(a) /\ IsFinite(b) /\ a.n < b.n

\* a <= b on two numbers
PyLe(a, b) ==
    /\ a.t # "nan" /\ b.t # "nan"
    /\ \/ PyLt(a, b)
       \/ a.t = b.t /\ ~IsFinite(a)
       \/ IsFinite(a) /\ IsFinite(b) /\ a.n = b.n

\* ------------------------------------------------------------------- dicts

Names == {"a", "b"}

RECURSIVE IndexOf(_, _, _)
IndexOf(d, k, i) ==
    IF i > Len(d) THEN 0
    ELSE IF d[i].k = k THEN i
    ELSE IndexOf(d, k, i + 1)

\* k in d
Has(d, k) == IndexOf(d, k, 1) # 0

\* d.get(k, default)
Get(d, k, default) == IF Has(d, k) THEN d[IndexOf(d, k, 1)].v ELSE default

\* d[k] = v: an existing key keeps its place, a new key goes last
Set(d, k, v) ==
    IF Has(d, k)
    THEN [d EXCEPT ![IndexOf(d, k, 1)] = [k |-> k, v |-> v]]
    ELSE Append(d, [k |-> k, v |-> v])

\* del d[k]
Del(d, k) ==
    LET i == IndexOf(d, k, 1)
    IN  SubSeq(d, 1, i - 1) \o SubSeq(d, i + 1, Len(d))

\* -------------------------------------------------------------------- JSON

Token(lit, neg, digits) == [lit |-> lit, neg |-> neg, digits |-> digits]

\* json.dump of one value: a number is written as its sign and its digits
JsonEncode(v) ==
    CASE v.t = "num" -> Token("number", v.n < 0, IF v.n < 0 THEN 0 - v.n ELSE v.n)
      [] v.t = "nan" -> Token("NaN", FALSE, 0)
      [] v.t = "inf" -> Token("Infinity", FALSE, 0)
      [] v.t = "ninf" -> Token("Infinity", TRUE, 0)
      [] v.t = "bool" -> Token(IF v.n = 1 THEN "true" ELSE "false", FALSE, 0)
      [] v.t = "str" -> Token("string", FALSE, 0)
      [] OTHER -> Token("null", FALSE, 0)

\* A json.load that drops the sign of a number.
JsonDecodeUnsigned(tok) ==
    CASE tok.lit = "number" -> Fin(tok.digits)
      [] tok.lit = "NaN" -> NaN
      [] tok.lit = "Infinity" -> Inf
      [] tok.lit = "true" -> Bool(TRUE)
      [] tok.lit = "false" -> Bool(FALSE)
      [] tok.lit = "string" -> Str
      [] OTHER -> None

\* json.load of one value
JsonDecode(tok) ==
    CASE tok.lit = "number" -> Fin(IF tok.neg THEN 0 - tok.digits ELSE tok.digits)
      [] tok.lit = "NaN" -> NaN
      [] tok.lit = "Infinity" -> IF tok.neg THEN NegInf ELSE Inf
      [] tok.lit = "true" -> Bool(TRUE)
      [] tok.lit = "false" -> Bool(FALSE)
      [] tok.lit = "string" -> Str
      [] OTHER -> None

\* json.dump(stock_data, f, indent=4): the members in the dict's order
JsonDump(d) == [i \in 1..Len(d) |-> [k |-> d[i].k, tok |-> JsonEncode(d[i].v)]]

\* json.load(f) of an object: a repeated name keeps its first place and
\* its last value
RECURSIVE JsonLoadFrom(_, _, _)
JsonLoadFrom(members, i, d) ==
    IF i > Len(members) THEN d
    ELSE JsonLoadFrom(members, i + 1,
                      Set(d, members[i].k, JsonDecode(members[i].tok)))

JsonLoad(members) == JsonLoadFrom(members, 1, <<>>)

\* ------------------------------------------------------------------- state

VARIABLES
    stock_data,  \* the global dict
    file,        \* what is at the path: [st, members]
    call,        \* the call made last, with its arguments
    pre,         \* stock_data as it was when that call was made
    ret,         \* what the call returned (None when it returns nothing)
    raised,      \* the exception that reached the caller, "none" if none
    logs         \* the list the caller passed as logs, after the call

vars == <<stock_data, file, call, pre, ret, raised, logs>>

Missing == [st |-> "missing", members |-> <<>>]
Malformed == [st |-> "malformed", members |-> <<>>]
Object(members) == [st |-> "object", members |-> members]

\* What may be at the path when the program starts: nothing, text that is
\* no JSON, or an object whose value is a string.
InitialFiles ==
    { Missing,
      Malformed,
      Object(<<[k |-> "a", tok |-> Token("string", FALSE, 0)]>>) }

\* The arguments the calls are made with.  An item is [str, name]: whether
\* it is a str, and the str.
Key(name) == [str |-> TRUE, name |-> name]
NotAString == [str |-> FALSE, name |-> "7"]
NoItem == [str |-> FALSE, name |-> "-"]

Items == {Key(k) : k \in Names}
QtyArgs == {Fin(0 - 1), Fin(0), Fin(1), Fin(2), Inf, Bool(TRUE)}
InvalidArgs == {<<NotAString, Fin(1)>>, <<Key("a"), Str>>, <<NotAString, Str>>}
MutationArgs == (Items \X QtyArgs) \cup InvalidArgs
Thresholds == {Fin(1), Fin(2), Fin(DefaultThreshold), Str}

\* The smaller sets of the specification that also saves.
SaveQtyArgs == {Fin(0 - 1), Fin(1), NaN}
SaveMutationArgs == Items \X SaveQtyArgs

Call(op, item, qty, sink, io, prev) ==
    [op |-> op, item |-> item, qty |-> qty, sink |-> sink, io |-> io, prev |-> prev]

NoPrev == <<"-", "-">>

\* A quantity the model lets a call store.
InBounds(v) == v.t = "num" => (0 - MaxNeg <= v.n /\ v.n <= MaxQty)

Init ==
    /\ stock_data = <<>>
    /\ file \in InitialFiles
    /\ call = Call("start", NoItem, None, FALSE, "ok", NoPrev)
    /\ pre = <<>>
    /\ ret = None
    /\ raised = "none"
    /\ logs = <<>>

\* -------------------------------------------------------------- operations

\* A type check that forgets the quantity.
ValidArgsItemOnly(item, qty) == item.str

\* The type check of lines 36 and 56.
ValidArgs(item, qty) == item.str /\ IsNumber(qty)

\* An add_item that does nothing for a quantity of 0.
AddEffectSkipZero(d, item, qty) ==
    LET old == Get(d, item, Fin(0))
    IN  IF ~IsNumber(old) \/ ~IsNumber(qty)
        THEN [d |-> d, exc |-> "TypeError"]
        ELSE IF qty = Fin(0)
             THEN [d |-> d, exc |-> "none"]
             ELSE [d |-> Set(d, item, PyAdd(old, qty)), exc |-> "none"]

\* Line 43: the new dict, or the TypeError of + on what is no number.
AddEffect(d, item, qty) ==
    LET old == Get(d, item, Fin(0))
    IN  IF ~IsNumber(old) \/ ~IsNumber(qty)
        THEN [d |-> d, exc |-> "TypeError"]
        ELSE [d |-> Set(d, item, PyAdd(old, qty)), exc |-> "none"]

add_item(item, qty, sink) ==
    /\ call' = Call("add", item, qty, sink, "ok", NoPrev)
    /\ pre' = stock_data
    /\ ret' = None
    /\ file' = file
    /\ IF ~ValidArgs(item, qty)
       THEN /\ stock_data' = stock_data
            /\ raised' = "none"
            /\ logs' = <<>>
       ELSE LET eff == AddEffect(stock_data, item.name, qty)
            IN  /\ InBounds(Get(eff.d, item.name, Fin(0)))
                /\ stock_data' = eff.d
                /\ raised' = eff.exc
                /\ logs' = IF sink /\ eff.exc = "none"
                           THEN <<[qty |-> qty, item |-> item.name]>>
                           ELSE <<>>

\* A deletion test with < 0 for <= 0.
DepletedStrict(v) == PyLt(v, Fin(0))

\* A remove_item without the deletion test.
DepletedNever(v) == FALSE

\* Line 65: whether remove_item deletes the key.
Depleted(v) == PyLe(v, Fin(0))

\* += written for -=.
SubAsAdd(a, b) == PyAdd(a, b)

\* Line 64: stock_data[item] -= qty
Decreased(a, b) == PySub(a, b)

\* A remove_item that takes an absent item as stored with 0.
RemoveEffectFromZero(d, item, qty) ==
    LET old == Get(d, item, Fin(0))
    IN  IF ~IsNumber(old) \/ ~IsNumber(qty)
        THEN [d |-> d, exc |-> "TypeError"]
        ELSE IF Depleted(Decreased(old, qty))
             THEN [d |-> IF Has(d, item) THEN Del(d, item) ELSE d, exc |-> "none"]
             ELSE [d |-> Set(d, item, Decreased(old, qty)), exc |-> "none"]

\* Lines 63 to 71: the new dict, or the TypeError of - on what is no number.
RemoveEffect(d, item, qty) ==
    IF Has(d, item)
    THEN LET old == Get(d, item, Fin(0))
         IN  IF ~IsNumber(old) \/ ~IsNumber(qty)
             THEN [d |-> d, exc |-> "TypeError"]
             ELSE IF Depleted(Decreased(old, qty))
                  THEN [d |-> Del(d, item), exc |-> "none"]
                  ELSE [d |-> Set(d, item, Decreased(old, qty)), exc |-> "none"]
    ELSE [d |-> d, exc |-> "none"]

remove_item(item, qty) ==
    /\ call' = Call("remove", item, qty, FALSE, "ok", NoPrev)
    /\ pre' = stock_data
    /\ ret' = None
    /\ file' = file
    /\ logs' = <<>>
    /\ IF ~ValidArgs(item, qty)
       THEN /\ stock_data' = stock_data
            /\ raised' = "none"
       ELSE LET eff == RemoveEffect(stock_data, item.name, qty)
            IN  /\ InBounds(Get(eff.d, item.name, Fin(0)))
                /\ stock_data' = eff.d
                /\ raised' = eff.exc

get_qty(item) ==
    /\ call' = Call("get", item, None, FALSE, "ok", NoPrev)
    /\ pre' = stock_data
    /\ ret' = IF ~item.str THEN Fin(0) ELSE Get(stock_data, item.name, Fin(0))
    /\ raised' = "none"
    /\ logs' = <<>>
    /\ UNCHANGED <<stock_data, file>>

\* A list comprehension with <= for <.
RECURSIVE LowItemsInclusive(_, _, _)
LowItemsInclusive(d, threshold, i) ==
    IF i > Len(d) THEN <<>>
    ELSE IF PyLe(d[i].v, threshold)
         THEN <<d[i].k>> \o LowItemsInclusive(d, threshold, i + 1)
         ELSE LowItemsInclusive(d, threshold, i + 1)

\* The list comprehension of line 154, from entry i on.
RECURSIVE LowItems(_, _, _)
LowItems(d, threshold, i) ==
    IF i > Len(d) THEN <<>>
    ELSE IF PyLt(d[i].v, threshold)
         THEN <<d[i].k>> \o LowItems(d, threshold, i + 1)
         ELSE LowItems(d, threshold, i + 1)

\* Line 154 compares every quantity with the threshold: a quantity that is
\* no number makes < raise TypeError.
Comparable(d) == \A i \in 1..Len(d) : IsNumber(d[i].v)

check_low_items(threshold) ==
    /\ call' = Call("low", NoItem, threshold, FALSE, "ok", NoPrev)
    /\ pre' = stock_data
    /\ logs' = <<>>
    /\ UNCHANGED <<stock_data, file>>
    /\ IF ~IsNumber(threshold)
       THEN ret' = <<>> /\ raised' = "none"
       ELSE IF Comparable(stock_data)
            THEN ret' = LowItems(stock_data, threshold, 1) /\ raised' = "none"
            ELSE ret' = None /\ raised' = "TypeError"

\* A load_data without the except clause of line 111.
LoadOutcomeOSErrorUncaught(f, io) ==
    CASE io = "fail" -> [ret |-> None, exc |-> "OSError"]
      [] f.st = "missing" -> [ret |-> <<>>, exc |-> "none"]
      [] f.st = "malformed" -> [ret |-> <<>>, exc |-> "none"]
      [] OTHER -> [ret |-> JsonLoad(f.members), exc |-> "none"]

\* Lines 100 to 113: what load_data returns and what it lets through.
\* io = "fail" is an OSError of open or read.
LoadOutcome(f, io) ==
    CASE io = "fail" -> [ret |-> <<>>, exc |-> "none"]
      [] f.st = "missing" -> [ret |-> <<>>, exc |-> "none"]
      [] f.st = "malformed" -> [ret |-> <<>>, exc |-> "none"]
      [] OTHER -> [ret |-> JsonLoad(f.members), exc |-> "none"]

load_data(io) ==
    /\ call' = Call("load", NoItem, None, FALSE, io, <<call.op, call.io>>)
    /\ pre' = stock_data
    /\ ret' = LoadOutcome(file, io).ret
    /\ raised' = LoadOutcome(file, io).exc
    /\ logs' = <<>>
    /\ UNCHANGED <<stock_data, file>>

\* Lines 123 to 128: what save_data leaves at the path.  io = "fail" is an
\* OSError of open, which leaves the path as it was; io = "cut" is an OSError
\* of a write, which leaves a text cut short.
SaveResult(f, d, io) ==
    CASE io = "ok" -> Object(JsonDump(d))
      [] io = "fail" -> f
      [] OTHER -> Malformed

save_data(io) ==
    /\ call' = Call("save", NoItem, None, FALSE, io, NoPrev)
    /\ pre' = stock_data
    /\ ret' = None
    /\ raised' = "none"
    /\ logs' = <<>>
    /\ file' = SaveResult(file, stock_data, io)
    /\ UNCHANGED stock_data

\* main, lines 174 to 177: a loaded dict that is not empty replaces stock_data.
Adopted(d, loaded) == IF Len(loaded) > 0 THEN loaded ELSE d

main_adopt ==
    /\ call.op = "load"
    /\ call' = Call("adopt", NoItem, None, FALSE, "ok", NoPrev)
    /\ pre' = stock_data
    /\ stock_data' = Adopted(stock_data, ret)
    /\ ret' = None
    /\ raised' = "none"
    /\ logs' = <<>>
    /\ file' = file

\* The program against a file it reads and never writes.
Next ==
    \/ \E args \in MutationArgs, sink \in BOOLEAN : add_item(args[1], args[2], sink)
    \/ \E args \in MutationArgs : remove_item(args[1], args[2])
    \/ \E item \in Items \cup {NotAString} : get_qty(item)
    \/ \E threshold \in Thresholds : check_low_items(threshold)
    \/ \E io \in {"ok", "fail"} : load_data(io)
    \/ main_adopt

Spec == Init /\ [][Next]_vars

\* The program with save_data, on fewer quantities.
NextSave ==
    \/ \E args \in SaveMutationArgs : add_item(args[1], args[2], FALSE)
    \/ \E item \in Items : remove_item(item, Fin(1))
    \/ \E io \in {"ok", "fail"} : load_data(io)
    \/ \E io \in {"ok", "fail", "cut"} : save_data(io)
    \/ main_adopt

SpecSave == Init /\ [][NextSave]_vars

\* ------------------------------------------------------------------ claims

\* What the formulas below read off the last call.
Target == call.item.name
ValidMutation(op) == call.op = op /\ call.item.str /\ IsNumber(call.qty)
Keys(d) == {d[i].k : i \in 1..Len(d)}
SameValue(a, b) == IF IsFinite(a) /\ IsFinite(b) THEN a.n = b.n ELSE a = b
SameDict(d, e) ==
    /\ Keys(d) = Keys(e)
    /\ \A k \in Keys(d) : SameValue(Get(d, k, None), Get(e, k, None))
OthersUnchanged(k) ==
    \A o \in Names \ {k} :
        /\ Has(stock_data, o) <=> Has(pre, o)
        /\ Get(stock_data, o, None) = Get(pre, o, None)
NoneBelowZero(d) == \A i \in 1..Len(d) : ~(IsNumber(d[i].v) /\ PyLt(d[i].v, Fin(0)))
NumericThresholds == {th \in Thresholds : IsNumber(th)}
Listed(k, d) == \E th \in NumericThresholds : \E j \in 1..Len(LowItems(d, th, 1)) :
                    LowItems(d, th, 1)[j] = k
Gone(k) ==
    /\ ~Has(stock_data, k)
    /\ Get(stock_data, k, Fin(0)) = Fin(0)
    /\ Comparable(stock_data) => ~Listed(k, stock_data)
\* remove(item, q) or remove(item, q + 1) was called on an item stored with
\* the number q
RemovedStoredOrOneMore ==
    /\ ValidMutation("remove")
    /\ Has(pre, Target)
    /\ IsNumber(Get(pre, Target, None))
    /\ \/ call.qty = Get(pre, Target, None)
       \/ call.qty = PyAdd(Get(pre, Target, None), Fin(1))

\* C1 as stated: after remove(item, q) or remove(item, q + 1) on an item
\* stored with quantity q, the item is absent, get_qty gives 0 and no
\* threshold lists it.
C1_RemoveToDeletion == RemovedStoredOrOneMore => Gone(Target)

\* C1 amended: the same for a finite stored quantity q (inf - inf and
\* nan - nan are nan, which is not <= 0, so the key stays).
C1_RemoveToDeletionFinite ==
    (RemovedStoredOrOneMore /\ IsFinite(Get(pre, Target, None))) => Gone(Target)

C1_Witness ==
    /\ RemovedStoredOrOneMore
    /\ Get(pre, Target, None) = Fin(1)
    /\ call.qty = Fin(2)
    /\ Has(pre, "b")
    /\ Gone(Target)

\* C2 as stated: no key is ever stored with a quantity below zero.
C2_NeverNegative == NoneBelowZero(stock_data)

\* C2 amended: from a state where no key is below zero, every remove call
\* and every add call whose quantity is not negative leaves no key below
\* zero.
C2_NegativeOnlyByNegativeAdd ==
    /\ (ValidMutation("remove") /\ NoneBelowZero(pre)) => NoneBelowZero(stock_data)
    /\ (ValidMutation("add") /\ ~PyLt(call.qty, Fin(0)) /\ NoneBelowZero(pre))
           => NoneBelowZero(stock_data)

C2_Witness ==
    /\ ValidMutation("remove")
    /\ NoneBelowZero(pre)
    /\ Get(pre, Target, None) = Fin(0)
    /\ call.qty = Fin(1)
    /\ Len(pre) = 2
    /\ ~Has(stock_data, Target)
    /\ NoneBelowZero(stock_data)

\* load_data was called right after save_data
LoadedAfterSave == call.op = "load" /\ call.prev[1] = "save"

ExampleStock ==
    <<[k |-> "a", v |-> Fin(3)], [k |-> "b", v |-> Fin(10)], [k |-> "c", v |-> Fin(4)]>>

\* C4: with a numeric threshold and numeric quantities, check_low_items
\* returns exactly the keys whose quantity is strictly below the threshold,
\* each once, in insertion order, and leaves stock_data as it was; on
\* {a:3, b:10, c:4} threshold 5 gives [a, c] and threshold 3 gives [].
C4_LowStockFilter ==
    /\ LowItems(ExampleStock, Fin(5), 1) = <<"a", "c">>
    /\ LowItems(ExampleStock, Fin(3), 1) = <<>>
    /\ (call.op = "low" /\ IsNumber(call.qty) /\ raised = "none") =>
          /\ stock_data = pre
          /\ \A k \in Names :
                (\E j \in 1..Len(ret) : ret[j] = k)
                    <=> (Has(pre, k) /\ PyLt(Get(pre, k, None), call.qty))
          /\ \A i, j \in 1..Len(ret) :
                i < j => IndexOf(pre, ret[i], 1) < IndexOf(pre, ret[j], 1)

C4_Witness ==
    /\ call.op = "low" /\ call.qty = Fin(1)
    /\ pre = <<[k |-> "b", v |-> Fin(1)], [k |-> "a", v |-> Fin(0)]>>
    /\ ret = <<"a">>

\* C5: add(item, 0) leaves get_qty(item) as it was and the item a key.
C5_AddZero ==
    (call.op = "add" /\ call.item.str /\ call.qty = Fin(0)) =>
        /\ SameValue(Get(stock_data, Target, Fin(0)), Get(pre, Target, Fin(0)))
        /\ Has(stock_data, Target)

C5_Witness ==
    /\ call.op = "add" /\ call.item.str /\ call.qty = Fin(0)
    /\ ~Has(pre, Target)
    /\ Len(pre) = 1
    /\ Get(stock_data, Target, None) = Fin(0)

\* C6: remove of an item that is no key leaves stock_data as it was and
\* raises nothing.
C6_RemoveAbsentNoOp ==
    (ValidMutation("remove") /\ ~Has(pre, Target)) =>
        (stock_data = pre /\ raised = "none")

C6_Witness ==
    /\ ValidMutation("remove") /\ ~Has(pre, Target)
    /\ call.qty = Fin(0 - 1)
    /\ Len(pre) = 1
    /\ stock_data = pre

\* C7: add or remove with an item that is no str or a quantity that is no
\* int or float leaves stock_data as it was, raises nothing and appends
\* nothing to logs.
C7_InvalidArgsNoOp ==
    (call.op \in {"add", "remove"} /\ (~call.item.str \/ ~IsNumber(call.qty))) =>
        (stock_data = pre /\ raised = "none" /\ logs = <<>>)

C7_Witness ==
    /\ call.op = "add" /\ call.sink
    /\ call.item.str /\ call.qty = Str
    /\ Len(pre) = 1
    /\ stock_data = pre /\ logs = <<>>

\* C8: load_data returns an empty dict when the file is missing or is no
\* JSON or an OSError occurs, never raises, and never changes stock_data.
C8_LoadFailureEmpty ==
    call.op = "load" =>
        /\ raised = "none"
        /\ stock_data = pre
        /\ (call.io = "fail" \/ file.st # "object") => ret = <<>>

C8_Witness ==
    /\ call.op = "load" /\ call.io = "fail"
    /\ file.st = "object"
    /\ Len(pre) = 1
    /\ ret = <<>> /\ stock_data = pre

\* C9: no call lets an exception reach its caller.
C9_NothingRaised == raised = "none"

\* remove(item, q) was called on an item stored with the number s
RemovedPresent ==
    /\ ValidMutation("remove")
    /\ Has(pre, Target)
    /\ IsNumber(Get(pre, Target, None))

\* The key is deleted exactly when s - q <= 0 and holds s - q otherwise.
DeletedExactlyWhenDepleted ==
    LET s == Get(pre, Target, None)
        q == call.qty
    IN  /\ (IsFinite(s) /\ IsFinite(q)) =>
              IF s.n - q.n <= 0
              THEN ~Has(stock_data, Target)
              ELSE /\ Has(stock_data, Target)
                   /\ Get(stock_data, Target, None) = Fin(s.n - q.n)
        /\ Has(stock_data, Target) =>
              /\ Get(stock_data, Target, None) = PySub(s, q)
              /\ ~PyLe(PySub(s, q), Fin(0))
        /\ OthersUnchanged(Target)

\* C10 as stated: remove deletes the key exactly when s - q <= 0 and stores
\* s - q otherwise, so the item is then absent or strictly positive, and
\* every other entry is as it was.
C10_RemoveEffect ==
    RemovedPresent =>
        /\ DeletedExactlyWhenDepleted
        /\ \/ ~Has(stock_data, Target)
           \/ PyLt(Fin(0), Get(stock_data, Target, None))

\* C10 amended: ... so the item is then absent, strictly positive or nan.
C10_RemoveEffectOrNaN ==
    RemovedPresent =>
        /\ DeletedExactlyWhenDepleted
        /\ \/ ~Has(stock_data, Target)
           \/ PyLt(Fin(0), Get(stock_data, Target, None))
           \/ Get(stock_data, Target, None) = NaN

C10_Witness ==
    /\ RemovedPresent
    /\ Get(pre, Target, None) = Fin(2)
    /\ call.qty = Fin(1)
    /\ Get(stock_data, Target, None) = Fin(1)
    /\ Has(pre, "a") /\ Has(pre, "b")

=============================================================================
